---- MODULE Spec2Model ----
(***************************************************************************)
(* Model of operators/dbt.py: the dbt operators of airflow-dbt-snowflake.  *)
(* One operator instance is constructed (Init) and then executed by the    *)
(* scheduler up to MaxExecs times.  DbtRunOperator.execute is followed     *)
(* through its four stages (payload, warehouse override, first dbt run,    *)
(* error handling); the other operators execute in a single step.          *)
(*                                                                         *)
(* Python values: a str is a record [t |-> "str", v |-> <characters>],     *)
(* None is [t |-> "none", v |-> << >>]; a dict is a function whose DOMAIN  *)
(* is its key set; an error text is a sequence of words.                   *)
(***************************************************************************)
EXTENDS Integers, Sequences, FiniteSets, TLC

\* ------------------------------------------------------------------ bounds
MaxExecs == 2

\* ------------------------------------------------------- python values
None == [t |-> "none", v |-> << >>]
Str(s) == [t |-> "str", v |-> s]

EmptyDict == [k \in {} |-> None]
SetItem(d, k, val) == [x \in (DOMAIN d) \cup {k} |-> IF x = k THEN val ELSE d[x]]

\* dict.get(key, default)
GetConf(c, key, default) == IF key \in DOMAIN c THEN c[key] ELSE default

\* x in list
InList(x, list) == \E i \in DOMAIN list : list[i] = x

\* str.upper(), character by character
UpperChar(ch) ==
    CASE ch = "w" -> "W"
      [] ch = "h" -> "H"
      [] ch = "x" -> "X"
      [] ch = "l" -> "L"
      [] ch = "s" -> "S"
      [] OTHER -> ch
Upper(s) == [i \in DOMAIN s |-> UpperChar(s[i])]

\* ------------------------------------------------------- input domains
OperatorKinds == {"run", "test", "docs", "snapshot", "seed", "deps", "clean"}
ModelNames == {"a", "c"}
WarehouseNames == {Str(<<"w", "h", "1">>), Str(<<"W", "h", "2">>)}
WarehouseSizes == {Str(<<"x", "l">>), Str(<<"X", "s">>)}
CtorEnvs == {EmptyDict, SetItem(EmptyDict, "DBT_WAREHOUSE", Str(<<"e", "t", "l">>))}

\* texts a failed dbt process can leave in the exception
SyncTexts == {<<"out", "of", "sync">>, <<"models", "out", "of", "sync", "with", "source">>}
OtherTexts == {<<"out", "of", "memory">>, <<"Out", "of", "sync">>, <<"compilation", "error">>}
ErrorTexts == SyncTexts \cup OtherTexts

\* an optional payload key: absent (with a filler of the key's type) or given
Absent(filler) == [present |-> FALSE, val |-> filler]
Given(x) == [present |-> TRUE, val |-> x]
MkConf(o) == [k \in {k \in DOMAIN o : o[k].present} |-> o[k].val]
Payloads ==
    { MkConf([full_refresh |-> fr, models |-> ms, warehouse_name |-> wn, warehouse_size |-> ws]) :
        fr \in {Absent(FALSE), Given(TRUE), Given(FALSE)},
        ms \in {Absent(<< >>), Given(<<"a", "b">>), Given(<< >>)},
        wn \in {Absent(None), Given(None)} \cup {Given(n) : n \in WarehouseNames},
        ws \in {Absent(None), Given(None)} \cup {Given(n) : n \in WarehouseSizes} }

\* ------------------------------------------------------------- errors
NoError == [cls |-> "none", text |-> << >>, src |-> 0]
Error(cls, text, src) == [cls |-> cls, text |-> text, src |-> src]

\* DbtCliHook.run_cli: returns, or raises AirflowException carrying the output text
RunCliOutcomes(n) == {NoError} \cup {Error("AirflowException", txt, n) : txt \in ErrorTexts}

\* SnowflakeHook(...).run(sql): returns, or raises
SqlOutcomes == {NoError, Error("DatabaseError", <<"sql", "failed">>, 0)}

VARIABLES
    opKind,           \* the operator class that was constructed
    models,           \* self.models
    full_refresh,     \* self.full_refresh
    env,              \* self.env
    hook,             \* self.hook
    hooksBuilt,       \* number of DbtCliHook objects constructed so far
    ctor_full_refresh,\* full_refresh as passed to __init__
    conf,             \* context["dag_run"].conf of the current execution
    pc,               \* position inside execute
    ae,               \* exception caught by execute's except clause
    essential_models, \* Variable.get("dbt_essential_models") as last fetched
    trace,            \* external effects of the current execution, in order
    cli_calls,        \* run_cli invocations of the current execution
    sql_calls,        \* statements sent to the warehouse in the current execution
    env_at_start,     \* self.env when the current execution began
    result,           \* outcome of the last execution
    raised,           \* exception that left execute
    override_error,   \* exception raised inside set_warehouse in the current execution
    execCount,        \* executions started on this instance
    retriedBefore     \* an earlier execution made an automatic retry

vars == <<opKind, models, full_refresh, env, hook, hooksBuilt, ctor_full_refresh, conf, pc, ae,
          essential_models, trace, cli_calls, sql_calls, env_at_start, result, raised,
          override_error, execCount, retriedBefore>>

\* ---------------------------------------------------- DbtBaseOperator
\* mutant: the adapter is built without the operator's full_refresh flag
create_hook_NoFlag(id, e, fr, m) ==
    [id |-> id, env |-> e, full_refresh |-> FALSE, models |-> m]

create_hook(id, e, fr, m) ==
    [id |-> id, env |-> e, full_refresh |-> fr, models |-> m]

\* one run_cli call on hook h, as seen from the operator at that moment
Invocation(h, opHook, opFullRefresh, opEnv, args, outcome) ==
    [args |-> args, hook |-> h, op_hook |-> opHook,
     op_full_refresh |-> opFullRefresh, op_env |-> opEnv, outcome |-> outcome]

\* "out of sync" in str(ae)
OutOfSync(text) ==
    \E i \in 1..Len(text) :
        i + 2 <= Len(text) /\ text[i] = "out" /\ text[i + 1] = "of" /\ text[i + 2] = "sync"

\* mutant: the essential-models test is inverted
ShouldRetry_EssentialInverted(e, fr, m, essential) ==
    OutOfSync(e.text) /\ ~fr /\ m \in essential

\* mutant: the full_refresh test is missing
ShouldRetry_IgnoresFullRefresh(e, fr, m, essential) ==
    OutOfSync(e.text) /\ m \notin essential

\* mutant: the essential-models test is missing
ShouldRetry_IgnoresEssential(e, fr, m, essential) ==
    OutOfSync(e.text) /\ ~fr

\* handle_dbt_error: the branch that retries
ShouldRetry(e, fr, m, essential) ==
    OutOfSync(e.text) /\ ~fr /\ m \notin essential

\* mutant: the size is not upper-cased
AlterStatement_SizeAsGiven(name, size) ==
    <<"ALTER WAREHOUSE ">> \o Upper(name.v) \o <<" SET WAREHOUSE_SIZE = ">> \o size.v \o <<";">>

\* set_warehouse_size: the statement text
AlterStatement(name, size) ==
    <<"ALTER WAREHOUSE ">> \o Upper(name.v) \o <<" SET WAREHOUSE_SIZE = ">> \o Upper(size.v) \o <<";">>

\* set_warehouse_size: what happens, in evaluation order
SetWarehouseSizeError(name, size, connIdSet, sqlOutcome) ==
    IF ~connIdSet THEN Error("KeyError", <<"SNOWFLAKE_CONN_ID">>, 0)
    ELSE IF name.t = "none" \/ size.t = "none" THEN Error("AttributeError", <<"upper">>, 0)
    ELSE sqlOutcome

StatementSent(name, size, connIdSet) ==
    connIdSet /\ name.t = "str" /\ size.t = "str"

\* ------------------------------------------------------ DbtRunOperator
\* mutant: the default of the payload's full_refresh is True
ReadFullRefresh_DefaultTrue(c) == GetConf(c, "full_refresh", TRUE)

ReadFullRefresh(c) == GetConf(c, "full_refresh", FALSE)

\* mutant: the membership test is inverted
SkipExecution_Inverted(c, m) ==
    "models" \in DOMAIN c /\ InList(m, GetConf(c, "models", << >>))

SkipExecution(c, m) ==
    "models" \in DOMAIN c /\ ~InList(m, GetConf(c, "models", << >>))

\* mutant: one key is enough
BothWarehouseKeys_Either(c) ==
    "warehouse_name" \in DOMAIN c \/ "warehouse_size" \in DOMAIN c

BothWarehouseKeys(c) ==
    "warehouse_name" \in DOMAIN c /\ "warehouse_size" \in DOMAIN c

\* mutant: the exception is logged and swallowed
OverrideAborts_Swallowed(e) == FALSE

\* try: set_warehouse(...) except Exception as e: log; raise e
OverrideAborts(e) == e # NoError

\* ------------------------------------------------- the other operators
\* mutant: docs-generate passes its two arguments in the wrong order
SubcommandArgs_DocsSwapped(kind) ==
    CASE kind = "run" -> <<"run">>
      [] kind = "test" -> <<"test">>
      [] kind = "docs" -> <<"generate", "docs">>
      [] kind = "snapshot" -> <<"snapshot">>
      [] kind = "seed" -> <<"seed">>
      [] kind = "deps" -> <<"deps">>
      [] kind = "clean" -> <<"clean">>

SubcommandArgs(kind) ==
    CASE kind = "run" -> <<"run">>
      [] kind = "test" -> <<"test">>
      [] kind = "docs" -> <<"docs", "generate">>
      [] kind = "snapshot" -> <<"snapshot">>
      [] kind = "seed" -> <<"seed">>
      [] kind = "deps" -> <<"deps">>
      [] kind = "clean" -> <<"clean">>

\* --------------------------------------------------------------- Init
Init ==
    /\ opKind \in OperatorKinds
    /\ models \in ModelNames
    /\ ctor_full_refresh \in BOOLEAN
    /\ full_refresh = ctor_full_refresh
    /\ env \in CtorEnvs
    /\ hook = create_hook(1, env, full_refresh, models)
    /\ hooksBuilt = 1
    /\ conf = EmptyDict
    /\ pc = "idle"
    /\ ae = NoError
    /\ essential_models = {}
    /\ trace = << >>
    /\ cli_calls = << >>
    /\ sql_calls = << >>
    /\ env_at_start = env
    /\ result = "none"
    /\ raised = NoError
    /\ override_error = NoError
    /\ execCount = 0
    /\ retriedBefore = FALSE

Finish(res, exc) ==
    /\ pc' = "idle"
    /\ result' = res
    /\ raised' = exc

\* ------------------------------------------------------------ actions
\* DbtRunOperator.execute, up to the skip decision
Begin ==
    /\ pc = "idle"
    /\ opKind = "run"
    /\ execCount < MaxExecs
    /\ \E c \in Payloads :
        /\ conf' = c
        /\ full_refresh' = ReadFullRefresh(c)
        /\ IF SkipExecution(c, models)
           THEN Finish("success", NoError)
           ELSE /\ pc' = "override"
                /\ result' = "running"
                /\ raised' = NoError
    /\ execCount' = execCount + 1
    /\ retriedBefore' = (retriedBefore \/ Len(cli_calls) > 1)
    /\ trace' = << >>
    /\ cli_calls' = << >>
    /\ sql_calls' = << >>
    /\ env_at_start' = env
    /\ ae' = NoError
    /\ override_error' = NoError
    /\ UNCHANGED <<opKind, models, env, hook, hooksBuilt, ctor_full_refresh, essential_models>>

\* DbtRunOperator.execute, the warehouse override (set_warehouse)
Override ==
    /\ pc = "override"
    /\ IF BothWarehouseKeys(conf)
       THEN LET name == GetConf(conf, "warehouse_name", None)
                size == GetConf(conf, "warehouse_size", None)
            IN \E connIdSet \in BOOLEAN, sqlOutcome \in SqlOutcomes :
                LET e == SetWarehouseSizeError(name, size, connIdSet, sqlOutcome)
                    sent == StatementSent(name, size, connIdSet)
                IN /\ env' = SetItem(env, "DBT_WAREHOUSE", name)
                   /\ trace' = IF sent THEN trace \o <<"setenv", "alter">> ELSE Append(trace, "setenv")
                   /\ sql_calls' = IF sent THEN Append(sql_calls, AlterStatement(name, size)) ELSE sql_calls
                   /\ override_error' = e
                   /\ IF OverrideAborts(e)
                      THEN Finish("failed", e)
                      ELSE /\ pc' = "run"
                           /\ UNCHANGED <<result, raised>>
       ELSE /\ pc' = "run"
            /\ UNCHANGED <<env, trace, sql_calls, result, raised, override_error>>
    /\ UNCHANGED <<opKind, models, full_refresh, hook, hooksBuilt, ctor_full_refresh, conf, ae,
                   essential_models, cli_calls, env_at_start, execCount, retriedBefore>>

\* DbtRunOperator.execute: self.create_hook().run_cli("run")
RunFirst ==
    /\ pc = "run"
    /\ hook' = create_hook(hooksBuilt + 1, env, full_refresh, models)
    /\ hooksBuilt' = hooksBuilt + 1
    /\ UNCHANGED <<full_refresh, env>>
    /\ \E outcome \in RunCliOutcomes(Len(cli_calls) + 1) :
        /\ cli_calls' = Append(cli_calls, Invocation(hook', hook', full_refresh', env, SubcommandArgs("run"), outcome))
        /\ trace' = Append(trace, "run_cli")
        /\ IF outcome = NoError
           THEN /\ Finish("success", NoError)
                /\ ae' = ae
           ELSE IF outcome.cls = "AirflowException"
           THEN /\ pc' = "handle"
                /\ ae' = outcome
                /\ UNCHANGED <<result, raised>>
           ELSE /\ Finish("failed", outcome)
                /\ ae' = ae
    /\ UNCHANGED <<opKind, models, ctor_full_refresh, conf, essential_models, sql_calls,
                   env_at_start, override_error, execCount, retriedBefore>>

\* DbtRunOperator.execute: self.handle_dbt_error(ae)
HandleDbtError ==
    /\ pc = "handle"
    /\ \E essential \in SUBSET ModelNames :
        /\ essential_models' = essential
        /\ IF ShouldRetry(ae, full_refresh, models, essential)
           THEN /\ full_refresh' = TRUE
                /\ hook' = create_hook(hooksBuilt + 1, env, full_refresh', models)
                /\ hooksBuilt' = hooksBuilt + 1
                /\ \E outcome \in RunCliOutcomes(Len(cli_calls) + 1) :
                    /\ cli_calls' = Append(cli_calls, Invocation(hook', hook', full_refresh', env, SubcommandArgs("run"), outcome))
                    /\ trace' = Append(trace, "run_cli")
                    /\ IF outcome = NoError
                       THEN Finish("success", NoError)
                       ELSE Finish("failed", outcome)
           ELSE /\ Finish("failed", ae)
                /\ UNCHANGED <<full_refresh, hook, hooksBuilt, cli_calls, trace>>
    /\ UNCHANGED <<opKind, models, env, ctor_full_refresh, conf, ae, sql_calls, env_at_start,
                   override_error, execCount, retriedBefore>>

\* execute of DbtTestOperator, DbtDocsGenerateOperator, DbtSnapshotOperator,
\* DbtSeedOperator, DbtDepsOperator, DbtCleanOperator
ExecuteSimple ==
    /\ pc = "idle"
    /\ opKind # "run"
    /\ execCount < MaxExecs
    /\ hook' = create_hook(hooksBuilt + 1, env, full_refresh, models)
    /\ hooksBuilt' = hooksBuilt + 1
    /\ UNCHANGED <<full_refresh, env>>
    /\ \E outcome \in RunCliOutcomes(1) :
        /\ cli_calls' = <<Invocation(hook', hook', full_refresh, env, SubcommandArgs(opKind), outcome)>>
        /\ trace' = <<"run_cli">>
        /\ IF outcome = NoError
           THEN Finish("success", NoError)
           ELSE Finish("failed", outcome)
    /\ execCount' = execCount + 1
    /\ sql_calls' = << >>
    /\ env_at_start' = env
    /\ UNCHANGED <<opKind, models, ctor_full_refresh, conf, ae, essential_models, override_error,
                   retriedBefore>>

Next ==
    \/ Begin
    \/ Override
    \/ RunFirst
    \/ HandleDbtError
    \/ ExecuteSimple

Spec == Init /\ [][Next]_vars

\* ============================================================ properties
\* what the current execution's payload says, read off conf directly
PayloadFullRefresh == "full_refresh" \in DOMAIN conf /\ conf["full_refresh"]
PayloadExcludesModel ==
    "models" \in DOMAIN conf /\ \A i \in DOMAIN conf["models"] : conf["models"][i] # models
PayloadHasBothWarehouseKeys == {"warehouse_name", "warehouse_size"} \subseteq DOMAIN conf

RunExecution == opKind = "run" /\ execCount > 0
RunFinished == RunExecution /\ pc = "idle"
FirstRunFailed == Len(cli_calls) >= 1 /\ cli_calls[1].outcome # NoError
FirstRunOutOfSync == Len(cli_calls) >= 1 /\ cli_calls[1].outcome.text \in SyncTexts
Count(ev) == Cardinality({i \in DOMAIN trace : trace[i] = ev})

\* C1: with payload full_refresh false or absent, a model outside the
\* essential list and a first run failing "out of sync", exactly one more
\* "run" invocation is made, with full_refresh true, and the execution ends
\* as that retry ends; no execution makes more than two invocations.
C1_SingleRetry ==
    /\ opKind = "run" => Len(cli_calls) <= 2 /\ Count("run_cli") = Len(cli_calls)
    /\ (RunFinished /\ ~PayloadFullRefresh /\ FirstRunOutOfSync /\ models \notin essential_models)
        => /\ Len(cli_calls) = 2
           /\ cli_calls[2].args = <<"run">>
           /\ cli_calls[2].hook.full_refresh = TRUE
           /\ cli_calls[2].outcome = NoError => (result = "success" /\ raised = NoError)
           /\ cli_calls[2].outcome # NoError => (result = "failed" /\ raised = cli_calls[2].outcome)

C1_Witness ==
    /\ RunFinished /\ ~PayloadFullRefresh /\ FirstRunOutOfSync /\ models \notin essential_models
    /\ Len(cli_calls) = 2
    /\ cli_calls[2].outcome.text \in SyncTexts
    /\ result = "failed"

\* C2: a failed run with full_refresh already true, or with a text that
\* does not contain "out of sync", is not retried: the original error leaves
\* execute after exactly one invocation.
C2_NoRetryReraise ==
    (RunFinished /\ FirstRunFailed /\ (PayloadFullRefresh \/ cli_calls[1].outcome.text \notin SyncTexts))
        => /\ Len(cli_calls) = 1
           /\ result = "failed"
           /\ raised = cli_calls[1].outcome

C2_Witness ==
    /\ RunFinished /\ FirstRunOutOfSync /\ PayloadFullRefresh
    /\ models \notin essential_models
    /\ Len(cli_calls) = 1 /\ result = "failed"

\* C3: for a model in the essential list, an "out of sync" failure is
\* re-raised as it is and never retried, and full_refresh stays as the
\* payload set it.
C3_EssentialNeverRetried ==
    (RunFinished /\ FirstRunOutOfSync /\ models \in essential_models)
        => /\ Len(cli_calls) = 1
           /\ result = "failed"
           /\ raised = cli_calls[1].outcome
           /\ full_refresh = PayloadFullRefresh

C3_Witness ==
    /\ RunFinished /\ FirstRunOutOfSync /\ models \in essential_models
    /\ ~PayloadFullRefresh
    /\ result = "failed"

\* C4: when the payload has a models list without the configured model,
\* the execution makes no invocation, sets no env key, sends no statement
\* and succeeds.
C4_SkipIsNoOp ==
    (RunExecution /\ PayloadExcludesModel)
        => /\ pc = "idle"
           /\ result = "success"
           /\ raised = NoError
           /\ cli_calls = << >>
           /\ sql_calls = << >>
           /\ trace = << >>
           /\ env = env_at_start

C4_Witness ==
    /\ RunExecution /\ PayloadExcludesModel /\ PayloadHasBothWarehouseKeys
    /\ conf["warehouse_name"].t = "str" /\ conf["warehouse_size"].t = "str"
    /\ result = "success"

\* C5 as claimed: a finished, non-skipped execution whose payload has both
\* warehouse keys has sent the ALTER WAREHOUSE statement exactly once.
C5_Original ==
    (RunFinished /\ ~PayloadExcludesModel /\ PayloadHasBothWarehouseKeys)
        => Len(sql_calls) = 1

\* C5: in a non-skipped execution whose payload has both warehouse keys the
\* statement is sent at most once, and exactly once if dbt is invoked at
\* all; when sent it is 'ALTER WAREHOUSE <NAME> SET WAREHOUSE_SIZE = <SIZE>;'
\* upper-cased, it follows the DBT_WAREHOUSE assignment, precedes the first
\* run and is not sent again before a retry.
C5_AlterOnceBeforeRun ==
    (RunExecution /\ ~PayloadExcludesModel /\ PayloadHasBothWarehouseKeys /\ pc # "override")
        => /\ Len(sql_calls) <= 1
           /\ Count("alter") = Len(sql_calls)
           /\ Len(cli_calls) >= 1 => Len(sql_calls) = 1
           /\ Len(sql_calls) = 1 =>
                /\ sql_calls[1] = <<"ALTER WAREHOUSE ">> \o Upper(conf["warehouse_name"].v)
                                    \o <<" SET WAREHOUSE_SIZE = ">> \o Upper(conf["warehouse_size"].v)
                                    \o <<";">>
                /\ (conf["warehouse_name"] = Str(<<"w", "h", "1">>) /\ conf["warehouse_size"] = Str(<<"x", "l">>))
                     => sql_calls[1] = <<"ALTER WAREHOUSE ", "W", "H", "1", " SET WAREHOUSE_SIZE = ", "X", "L", ";">>
                /\ trace[1] = "setenv" /\ trace[2] = "alter"
                /\ \A i \in DOMAIN trace : i > 2 => trace[i] = "run_cli"
                /\ env["DBT_WAREHOUSE"] = conf["warehouse_name"]
                /\ \A i \in DOMAIN cli_calls :
                     cli_calls[i].hook.env["DBT_WAREHOUSE"] = conf["warehouse_name"]

C5_Witness ==
    /\ RunFinished /\ ~PayloadExcludesModel /\ PayloadHasBothWarehouseKeys
    /\ conf["warehouse_name"] = Str(<<"w", "h", "1">>) /\ conf["warehouse_size"] = Str(<<"x", "l">>)
    /\ Len(sql_calls) = 1
    /\ Len(cli_calls) = 2

C7_OverrideFailureFatal ==
    (RunExecution /\ override_error # NoError)
        => /\ pc = "idle"
           /\ result = "failed"
           /\ raised = override_error
           /\ cli_calls = << >>
           /\ Count("run_cli") = 0
           /\ full_refresh = PayloadFullRefresh

C7_Witness ==
    /\ RunExecution /\ override_error.cls = "DatabaseError"
    /\ Len(sql_calls) = 1
    /\ ~PayloadFullRefresh
    /\ result = "failed"

\* C8: every invocation goes through the operator's current adapter, whose
\* full_refresh flag and environment are the operator's at that moment; the
\* adapter is the most recently built one and is built anew for each
\* invocation.
C8_FreshAdapter ==
    /\ \A i \in DOMAIN cli_calls :
        /\ cli_calls[i].hook = cli_calls[i].op_hook
        /\ cli_calls[i].hook.full_refresh = cli_calls[i].op_full_refresh
        /\ cli_calls[i].hook.env = cli_calls[i].op_env
        /\ cli_calls[i].hook.models = models
        /\ \A j \in DOMAIN cli_calls : i < j => cli_calls[i].hook.id < cli_calls[j].hook.id
    /\ Len(cli_calls) >= 1 =>
        /\ cli_calls[Len(cli_calls)].hook = hook
        /\ hook.id = hooksBuilt
        /\ hook.env = env
        /\ hook.full_refresh = full_refresh

C8_Witness ==
    /\ RunFinished
    /\ Len(cli_calls) = 2
    /\ Count("setenv") = 1
    /\ env # env_at_start
    /\ cli_calls[1].hook.full_refresh = FALSE /\ cli_calls[2].hook.full_refresh = TRUE

\* C9: test, snapshot, seed, deps, clean and docs-generate make exactly one
\* invocation with their fixed arguments ("docs" then "generate" for
\* docs-generate); a failure, "out of sync" included, leaves execute as it
\* is, with no retry, no full_refresh change and no warehouse override.
C9_SimpleOperators ==
    (opKind # "run" /\ execCount > 0)
        => /\ Len(cli_calls) = 1
           /\ trace = <<"run_cli">>
           /\ opKind = "test" => cli_calls[1].args = <<"test">>
           /\ opKind = "snapshot" => cli_calls[1].args = <<"snapshot">>
           /\ opKind = "seed" => cli_calls[1].args = <<"seed">>
           /\ opKind = "deps" => cli_calls[1].args = <<"deps">>
           /\ opKind = "clean" => cli_calls[1].args = <<"clean">>
           /\ opKind = "docs" => cli_calls[1].args = <<"docs", "generate">>
           /\ cli_calls[1].outcome = NoError => (result = "success" /\ raised = NoError)
           /\ cli_calls[1].outcome # NoError => (result = "failed" /\ raised = cli_calls[1].outcome)
           /\ full_refresh = ctor_full_refresh
           /\ cli_calls[1].hook.full_refresh = ctor_full_refresh
           /\ sql_calls = << >>
           /\ env = env_at_start

C9_Witness ==
    /\ opKind = "docs" /\ execCount > 0
    /\ cli_calls[1].args = <<"docs", "generate">>
    /\ cli_calls[1].outcome.text \in SyncTexts
    /\ result = "failed"

====
